---------------------------- MODULE Spec2Model ----------------------------
(***************************************************************************)
(* Process lifecycle control of procctrl.hpp: discovery by name,           *)
(* suspend/resume of one pid, batch suspend/resume with cgroup dedup, the  *)
(* process-tree walk and the lazy resolution of the NT entry points.       *)
(* Both builds of the header (#ifdef _WIN32 / #else) are modelled; the     *)
(* variable platform says which one runs.                                  *)
(***************************************************************************)
EXTENDS Integers, Sequences, FiniteSets, TLC

\* ---------------------------------------------------------------- bounds
MaxPid == 3
MaxEnv == 1
MaxBatches == 2
MaxSuspendCount == 2
MaxTreeLen == 7
MaxOrderPid == 5
NThreads == 2

\* ------------------------------------------------------------- variables
VARIABLES
    platform,       \* "win" | "linux": which side of #ifdef _WIN32 is built
    cgv2,           \* stat("/sys/fs/cgroup/cgroup.controllers") == 0
    nodeMode,       \* per cgroup path: how its cgroup.freeze node answers
    ntExports,      \* names GetProcAddress(ntdll, .) resolves
    handles,        \* number of OS handles the calling process holds open
    procs,          \* the OS process table: pid -> record
    stopCount,      \* pid -> stop state (SIGSTOP: 0/1, NtSuspendProcess: count)
    frozen,         \* set of cgroup paths whose cgroup.freeze holds "1"
    nt,             \* init_nt_functions' statics and the two globals
    fx,             \* backend effects of the operation in progress / last run
    envSteps,       \* process-table changes made by the environment so far
    changed,        \* the table changed since the running operation started
    born,           \* pids whose process was created since the operation started
    \* suspend_processes_by_name / resume_processes_by_name
    bpc, suspend, exe_name, pids, idx, handled_cgroups, success_count, nBatches,
    procs0,         \* the process table as it was when the batch enumerated it
    hit,            \* pids of processes created during the batch that it acted on
    called,         \* the pids the batch has passed to set_process_suspended
    prev,           \* what the batch before this one was asked and returned
    \* one set_process_suspended call
    lastCall,
    \* get_process_tree
    tpc, root_pid, tree, to_check,
    \* threads inside set_process_suspended / init_nt_functions (_WIN32)
    th,
    \* LagSwitch.hpp: the flag and the options
    TrafficBlocked, PreventDisconnection, LagTimeMilliseconds, PacketLossPercentage,
    customValuesAllowed, PingIncreaseMode, PingIncreaseAmount,
    \* netctrl::NetCtrl ctrl (packet loss in tenths of a percent)
    is_active_, current_lag_ms_, current_drop_percent_, default_iface_,
    lagCall         \* the last BlockTraffic / UnblockTraffic call and what it did

optVars   == <<PreventDisconnection, LagTimeMilliseconds, PacketLossPercentage,
               customValuesAllowed, PingIncreaseMode, PingIncreaseAmount>>
ctrlVars  == <<is_active_, current_lag_ms_, current_drop_percent_, default_iface_>>
lagVars   == <<TrafficBlocked, optVars, ctrlVars, lagCall>>
hostVars  == <<platform, cgv2, nodeMode, ntExports, lagVars>>
osVars    == <<hostVars, handles>>
tableVars == <<procs, stopCount, frozen>>
batchVars == <<bpc, suspend, exe_name, pids, idx, handled_cgroups, success_count,
               nBatches, procs0, called, hit, prev>>
envVars   == <<envSteps, changed, born>>
treeVars  == <<tpc, root_pid, tree, to_check>>
vars      == <<osVars, tableVars, nt, fx, envVars, batchVars, lastCall, treeVars, th>>

\* --------------------------------------------------------------- strings
\* std::string values are sequences of characters, so that rfind/find/substr
\* are computed and not looked up.
StartsWith(s, pre) == Len(s) >= Len(pre) /\ SubSeq(s, 1, Len(pre)) = pre

Contains(s, pat) ==
    \E i \in 1..(Len(s) - Len(pat) + 1) : SubSeq(s, i, i + Len(pat) - 1) = pat

V2Prefix    == <<"0", ":", ":", "/">>
CgroupRoot  == <<"/", "s", "y", "s", "/", "f", "s", "/", "c", "g", "r", "o", "u", "p">>
PatApp      == <<"a", "p", "p", "-">>
PatSnap     == <<"s", "n", "a", "p", ".">>

\* The line of /proc/<pid>/cgroup that decides get_cgroup_v2_path.
LineV1   == <<"1", ":", "c", "p", "u", ":", "/">>                 \* cgroup v1 only
LineUser == <<"0", ":", ":", "/", "u", "s", "e", "r">>            \* plain v2 group
LineApp  == <<"0", ":", ":", "/", "a", "p", "p", "-", "1">>       \* flatpak-like
LineSnap == <<"0", ":", ":", "/", "s", "n", "a", "p", ".", "x">>  \* snap-like
Lines    == {LineV1, LineUser, LineApp, LineSnap}

\* get_cgroup_v2_path on one line of the file: "" unless the line starts with
\* "0::/", else "/sys/fs/cgroup" + line.substr(3).
PathOfLine(line) ==
    IF StartsWith(line, V2Prefix)
    THEN CgroupRoot \o SubSeq(line, 4, Len(line))
    ELSE <<>>

\* The same, tabulated over the lines the model uses.
PathTable == [l \in Lines \cup {<<>>} |-> PathOfLine(l)]

PathApp  == PathTable[LineApp]
PathSnap == PathTable[LineSnap]
Paths    == {PathTable[l] : l \in Lines} \ {<<>>}

\* ----------------------------------------------------------- process table
Names   == {"worker", "other"}
AllPids == 0..MaxPid      \* pid 0 is a table entry on Windows only (the idle process)
Pids    == 1..MaxPid      \* the identifiers the OS hands out for processes
NoProc  == [alive |-> FALSE, name |-> "", ppid |-> -1, cgroup_line |-> <<>>, perm |-> "none"]

Proc(name, ppid, line, perm) ==
    [alive |-> TRUE, name |-> name, ppid |-> ppid, cgroup_line |-> line, perm |-> perm]

\* perm: "full"  = the caller may signal / open the process for suspend-resume,
\*       "query" = the process is visible but control is denied (EPERM / access denied),
\*       "none"  = not even a limited query handle is granted (protected process).
LinuxKinds ==
    {Proc("worker", 0, l, "full") : l \in Lines}
    \cup {Proc("worker", 0, LineUser, "query"), Proc("other", 0, LineApp, "full")}

WinKinds ==
    {Proc("worker", 0, <<>>, p) : p \in {"full", "query", "none"}}
    \cup {Proc("other", 0, <<>>, "full")}

Kinds(pf) == IF pf = "win" THEN WinKinds ELSE LinuxKinds

\* The processes the environment creates while an operation runs.
SpawnKinds(pf) ==
    IF pf = "win"
    THEN {Proc("worker", 0, <<>>, "full"), Proc("other", 0, <<>>, "full")}
    ELSE {Proc("worker", 0, LineApp, "full"), Proc("other", 0, LineUser, "full")}

NodeModes == {"ok", "noopen", "failnow", "faillate"}

\* ------------------------------------------------------------ procctrl.hpp

is_cgroup_v2_available == cgv2

\* get_cgroup_v2_path: "" when /proc/<pid>/cgroup cannot be opened or holds no
\* line starting with "0::/", else "/sys/fs/cgroup" + line.substr(3).
CgroupPathIn(table, pid) ==
    IF ~table[pid].alive THEN <<>>
    ELSE PathTable[table[pid].cgroup_line]

get_cgroup_v2_path(pid) == CgroupPathIn(procs, pid)

\* An existence check that always answers yes.
process_exists_always(pid) == TRUE

\* process_exists: OpenProcess(PROCESS_QUERY_LIMITED_INFORMATION) succeeds /
\* kill(pid, 0) == 0 || errno == EPERM.
process_exists(pid) ==
    IF platform = "win"
    THEN procs[pid].alive /\ procs[pid].perm \in {"full", "query"}
    ELSE procs[pid].alive

\* can_control_process: OpenProcess(PROCESS_SUSPEND_RESUME) succeeds /
\* kill(pid, 0) == 0, or errno == EPERM.
can_control_process(pid) ==
    IF platform = "win"
    THEN procs[pid].alive /\ procs[pid].perm = "full"
    ELSE procs[pid].alive

\* The snapshot / readdir pass lists the live pids in ascending order.
RECURSIVE Enumerate(_)
Enumerate(n) ==
    IF n < 0 THEN <<>>
    ELSE Enumerate(n - 1) \o (IF procs[n].alive THEN <<n>> ELSE <<>>)

SelectName(s, name) == SelectSeq(s, LAMBDA p : procs[p].name = name)

find_all_processes_by_name(name) == SelectName(Enumerate(MaxPid), name)

\* A scan that keeps going after a match and returns the last one.
RECURSIVE LastMatch(_, _)
LastMatch(s, name) ==
    IF s = <<>> THEN -1
    ELSE IF procs[s[Len(s)]].name = name THEN s[Len(s)]
    ELSE LastMatch(SubSeq(s, 1, Len(s) - 1), name)

find_process_by_name_last(name) == LastMatch(Enumerate(MaxPid), name)

\* The scan of find_process_by_name: result = -1, and at the first entry whose
\* name matches, result = pid; break (return pe32.th32ProcessID).
RECURSIVE FirstMatch(_, _)
FirstMatch(s, name) ==
    IF s = <<>> THEN -1
    ELSE IF procs[Head(s)].name = name THEN Head(s)
    ELSE FirstMatch(Tail(s), name)

find_process_by_name(name) == FirstMatch(Enumerate(MaxPid), name)

\* get_parent_pid: the ppid field of /proc/<pid>/stat, the snapshot entry's
\* th32ParentProcessID; -1 when the record cannot be read or is not there.
get_parent_pid(pid) == IF procs[pid].alive THEN procs[pid].ppid ELSE -1

\* A backend effect: a signal sent, a cgroup.freeze node opened for writing,
\* a process handle opened, an NT entry point called.
Effect(kind, pid, path, val, ok) ==
    [kind |-> kind, pid |-> pid, path |-> path, val |-> val, ok |-> ok]

\* init_nt_functions, run by one thread without interruption.
init_nt_functions(n) ==
    IF ~n.initialized
    THEN [initialized |-> TRUE,
          pSuspend |-> "NtSuspendProcess" \in ntExports,
          pResume |-> "NtResumeProcess" \in ntExports,
          resolutions |-> n.resolutions + 1,
          elevations |-> n.elevations + 1]
    ELSE n

\* !cgroup_path.empty() && (find("app-") != npos || find("snap.") != npos),
\* tabulated over the paths the model uses.
SandboxedPaths == {p \in Paths : Contains(p, PatApp) \/ Contains(p, PatSnap)}

is_sandboxed_app(cgroup_path) == cgroup_path # <<>> /\ cgroup_path \in SandboxedPaths

Outcome(r, sc, fr, n, e) ==
    [ret |-> r, stopCount |-> sc, frozen |-> fr, nt |-> n, fx |-> e]

\* The #ifdef _WIN32 half of set_process_suspended, after the existence check.
SetSuspendedWin(pid, susp) ==
    LET n == init_nt_functions(nt) IN
    IF ~n.pSuspend \/ ~n.pResume
    THEN Outcome(FALSE, stopCount, frozen, n, fx)
    ELSE IF procs[pid].perm # "full"
    THEN Outcome(FALSE, stopCount, frozen, n,
                 Append(fx, Effect("open", pid, <<>>, "PROCESS_SUSPEND_RESUME", FALSE)))
    ELSE Outcome(TRUE,
                 [stopCount EXCEPT ![pid] =
                     IF susp THEN @ + 1 ELSE IF @ > 0 THEN @ - 1 ELSE 0],
                 frozen, n,
                 Append(fx, Effect("nt", pid, <<>>,
                                   IF susp THEN "NtSuspendProcess" ELSE "NtResumeProcess", TRUE)))

\* A node that is written with words.
freeze_value_words(susp) == IF susp THEN "freeze" ELSE "thaw"

\* line 430: freeze_file << (suspend ? "1" : "0")
freeze_value(susp) == IF susp THEN "1" ELSE "0"

\* The cgroup branch: open <cgroup_path>/cgroup.freeze and write "1" or "0".
\* operator<< only fills the stream buffer, so fail() tested right after it
\* cannot see a write(2) that is rejected when the stream is flushed on
\* destruction ("faillate"); "failnow" is a stream that reports it at once.
FreezeNodeIn(mode, pid, susp, cgroup_path) ==
    LET val == freeze_value(susp) IN
    CASE mode = "noopen" ->
           Outcome(FALSE, stopCount, frozen, nt,
                   Append(fx, Effect("node", pid, cgroup_path, "open", FALSE)))
      [] mode = "failnow" ->
           Outcome(FALSE, stopCount, frozen, nt,
                   Append(fx, Effect("node", pid, cgroup_path, val, FALSE)))
      [] mode = "faillate" ->
           Outcome(TRUE, stopCount, frozen, nt,
                   Append(fx, Effect("node", pid, cgroup_path, val, FALSE)))
      [] OTHER ->
           Outcome(TRUE, stopCount,
                   IF susp THEN frozen \cup {cgroup_path} ELSE frozen \ {cgroup_path},
                   nt,
                   Append(fx, Effect("node", pid, cgroup_path, val, TRUE)))

FreezeNode(pid, susp, cgroup_path) ==
    FreezeNodeIn(nodeMode[cgroup_path], pid, susp, cgroup_path)

\* A signal branch that sends SIGSTOP whatever is asked.
SendSignal_stop_only(pid, susp) ==
    IF procs[pid].alive /\ procs[pid].perm = "full"
    THEN Outcome(TRUE, [stopCount EXCEPT ![pid] = 1], frozen, nt,
                 Append(fx, Effect("kill", pid, <<>>, "SIGSTOP", TRUE)))
    ELSE Outcome(FALSE, stopCount, frozen, nt,
                 Append(fx, Effect("kill", pid, <<>>, "SIGSTOP", FALSE)))

\* The signal branch: kill(pid, SIGSTOP / SIGCONT).
SendSignal(pid, susp) ==
    LET sig == IF susp THEN "SIGSTOP" ELSE "SIGCONT" IN
    IF procs[pid].alive /\ procs[pid].perm = "full"
    THEN Outcome(TRUE, [stopCount EXCEPT ![pid] = IF susp THEN 1 ELSE 0], frozen, nt,
                 Append(fx, Effect("kill", pid, <<>>, sig, TRUE)))
    ELSE Outcome(FALSE, stopCount, frozen, nt,
                 Append(fx, Effect("kill", pid, <<>>, sig, FALSE)))

\* A variant that falls back to the signal when the freeze node fails.
SetSuspendedLinux_fallback(pid, susp) ==
    LET cgroup_path == get_cgroup_v2_path(pid) IN
    IF is_sandboxed_app(cgroup_path) /\ is_cgroup_v2_available
          /\ nodeMode[cgroup_path] \in {"ok", "faillate"}
    THEN FreezeNode(pid, susp, cgroup_path)
    ELSE SendSignal(pid, susp)

SetSuspendedLinux(pid, susp) ==
    LET cgroup_path == get_cgroup_v2_path(pid) IN
    IF is_sandboxed_app(cgroup_path) /\ is_cgroup_v2_available
    THEN FreezeNode(pid, susp, cgroup_path)
    ELSE SendSignal(pid, susp)

\* SuspensionState of a live pid, as the OS holds it.
IsSuspended(pid) ==
    procs[pid].alive /\ (stopCount[pid] > 0 \/ get_cgroup_v2_path(pid) \in frozen)

IsRunning(pid) == procs[pid].alive /\ ~IsSuspended(pid)

\* A variant that refuses a pid which is already in the requested state.
set_process_suspended_strict(pid, susp) ==
    IF ~process_exists(pid) \/ IsSuspended(pid) = susp
    THEN Outcome(FALSE, stopCount, frozen, nt, fx)
    ELSE IF platform = "win" THEN SetSuspendedWin(pid, susp)
    ELSE SetSuspendedLinux(pid, susp)

\* set_process_suspended(pid, suspend): the value returned and the state left.
set_process_suspended(pid, susp) ==
    IF ~process_exists(pid)
    THEN Outcome(FALSE, stopCount, frozen, nt, fx)
    ELSE IF platform = "win" THEN SetSuspendedWin(pid, susp)
    ELSE SetSuspendedLinux(pid, susp)

\* ---- handles: what each call leaves open, path by path (_WIN32 only)

OpenHandle(h) == h + 1

\* A CloseHandle that releases nothing.
CloseHandle_leak(h) == h

CloseHandle(h) == h - 1

\* process_exists: OpenProcess, and CloseHandle when it gave a handle.
Handles_process_exists(h, pid) ==
    IF platform = "win" /\ process_exists(pid) THEN CloseHandle(OpenHandle(h)) ELSE h

\* can_control_process: the same with PROCESS_SUSPEND_RESUME.
Handles_can_control_process(h, pid) ==
    IF platform = "win" /\ can_control_process(pid) THEN CloseHandle(OpenHandle(h)) ELSE h

\* How enable_debug_privilege can end: OpenProcessToken fails,
\* LookupPrivilegeValueA fails, AdjustTokenPrivileges fails, or all succeed.
PrivModes == {"notoken", "nolookup", "noadjust", "ok"}

enable_debug_privilege(priv) == priv = "ok"

Handles_enable_debug_privilege(h, priv) ==
    IF priv = "notoken" THEN h                              \* line 97
    ELSE IF priv = "nolookup" THEN CloseHandle(OpenHandle(h))  \* lines 104-105
    ELSE CloseHandle(OpenHandle(h))                            \* lines 112-114

\* set_process_suspended: the existence check, the first-use initialisation,
\* then OpenProcess / Nt*Process / CloseHandle.
Handles_set_process_suspended(h, pid, susp, priv) ==
    LET h1 == Handles_process_exists(h, pid)
        h2 == IF nt.initialized THEN h1 ELSE Handles_enable_debug_privilege(h1, priv)
        n  == init_nt_functions(nt) IN
    IF ~process_exists(pid) \/ platform # "win" THEN h1
    ELSE IF ~n.pSuspend \/ ~n.pResume THEN h2                \* line 391
    ELSE IF procs[pid].perm # "full" THEN h2                 \* line 398
    ELSE CloseHandle(OpenHandle(h2))                         \* lines 394-410

None == <<>>

\* The isolation domain set_process_suspended acts on for a pid of `table`:
\* its cgroup path when the path looks sandboxed and cgroup v2 is mounted.
ResolveDomain(table, pid) ==
    IF platform = "linux" /\ is_sandboxed_app(CgroupPathIn(table, pid)) /\ is_cgroup_v2_available
    THEN CgroupPathIn(table, pid)
    ELSE None

\* The caller is allowed the backend operation on pid: the freeze node of its
\* domain takes the write, or the pid accepts the signal / the suspend-resume
\* handle and the NT entry points exist.
CanControl(p) ==
    /\ procs[p].alive
    /\ IF ResolveDomain(procs, p) # None
       THEN nodeMode[ResolveDomain(procs, p)] = "ok"
       ELSE /\ procs[p].perm = "full"
            /\ platform = "win" => ntExports = {"NtSuspendProcess", "NtResumeProcess"}

\* ------------------------------------------- netctrl.hpp and LagSwitch.hpp

\* Packet loss is kept in tenths of a percent: 99.5f is 995, 100.0 is 1000.
Tenths(whole, tenth) == whole * 10 + tenth

\* The members of NetCtrl that the calls set.
Ctrl(active, lag_ms, drop) ==
    [is_active_ |-> active, current_lag_ms_ |-> lag_ms, current_drop_percent_ |-> drop]

CtrlNow == Ctrl(is_active_, current_lag_ms_, current_drop_percent_)

CtrlResult(r, c) == [ret |-> r, ctrl |-> c]

\* disableLinux(): the tc and iptables rules are removed, whatever they were.
disableLinux == CtrlResult(TRUE, Ctrl(FALSE, 0, 0))

\* disableWindows(): cleanupFumble() and the same three members.
disableWindows == CtrlResult(TRUE, Ctrl(FALSE, 0, 0))

\* blockLinux(): disableLinux(), then the two iptables DROP rules.
blockLinux == CtrlResult(TRUE, Ctrl(TRUE, 0, Tenths(100, 0)))

\* applyLinux(): disableLinux(), then tc netem on the default interface.
applyLinux(lag_ms, drop_percent) ==
    IF default_iface_ = ""
    THEN CtrlResult(FALSE, disableLinux.ctrl)
    ELSE CtrlResult(TRUE, Ctrl(TRUE, lag_ms, drop_percent))

\* What launching fumble.exe can come to.
Launches == {"ok", "notfound", "refused", "nohandle"}

\* applyWindowsLag(): disableWindows(), the arguments clamped, fumble.exe
\* looked up and started elevated.
applyWindowsLag(lag_ms, drop_percent, launch) ==
    LET l == IF lag_ms < 0 THEN 1 ELSE lag_ms
        d == IF drop_percent < 0 THEN 0
             ELSE IF drop_percent > Tenths(100, 0) THEN Tenths(100, 0)
             ELSE drop_percent IN
    IF launch # "ok"
    THEN CtrlResult(FALSE, disableWindows.ctrl)
    ELSE CtrlResult(TRUE, Ctrl(TRUE, l, d))

lag(lag_ms, drop_percent, launch) ==
    IF platform = "win" THEN applyWindowsLag(lag_ms, drop_percent, launch)
    ELSE applyLinux(lag_ms, drop_percent)

increasePing(ms, launch) ==
    IF ms <= 0 THEN CtrlResult(FALSE, CtrlNow) ELSE lag(ms, 0, launch)

block(launch) ==
    IF platform = "win" THEN applyWindowsLag(1, Tenths(100, 0), launch) ELSE blockLinux

disable == IF platform = "win" THEN disableWindows ELSE disableLinux

isActive == is_active_

NoLagCall == [op |-> "none", ret |-> TRUE, before |-> FALSE, invoked |-> "none",
              success |-> FALSE]

\* The globals of LagSwitch.hpp as declared, and ctrl as its constructor
\* leaves it when findInterface() found the interface iface ("" for none).
LagConstructed(iface) ==
    /\ TrafficBlocked = FALSE
    /\ PreventDisconnection = TRUE
    /\ LagTimeMilliseconds = 1
    /\ PacketLossPercentage = Tenths(99, 5)
    /\ customValuesAllowed = FALSE
    /\ PingIncreaseMode = FALSE
    /\ PingIncreaseAmount = 100
    /\ is_active_ = FALSE
    /\ current_lag_ms_ = 0
    /\ current_drop_percent_ = 0
    /\ default_iface_ = iface
    /\ lagCall = NoLagCall

LagIdle == LagConstructed("")

\* ------------------------------------------------------------ environment

TreeIdle == tpc = "idle" /\ root_pid = -1 /\ tree = <<>> /\ to_check = <<>>

Threads == 1..NThreads
ThreadsIdle ==
    th = [t \in Threads |-> [pc |-> "idle", seen |-> "none", ret |-> "none",
                             buf |-> {}, after |-> FALSE, did |-> FALSE]]

EnvInit(pf) ==
    /\ platform = pf
    /\ IF pf = "win"
       THEN /\ cgv2 = FALSE
            /\ nodeMode = [p \in Paths |-> "ok"]
            /\ ntExports \in {{}, {"NtSuspendProcess"},
                              {"NtSuspendProcess", "NtResumeProcess"}}
       ELSE /\ cgv2 \in BOOLEAN
            /\ nodeMode \in {[p \in Paths |-> IF p = PathApp THEN m ELSE "ok"] :
                                m \in IF cgv2 THEN NodeModes ELSE {"ok"}}
            /\ ntExports = {}
    /\ handles = 0
    /\ stopCount = [p \in AllPids |-> 0]
    /\ frozen = {}
    /\ nt = [initialized |-> FALSE, pSuspend |-> FALSE, pResume |-> FALSE,
             resolutions |-> 0, elevations |-> 0]
    /\ fx = <<>>
    /\ envSteps = 0
    /\ changed = FALSE
    /\ born = {}

TableInit(pf) ==
    procs \in {f \in [AllPids -> Kinds(pf) \cup {NoProc}] : f[0] = NoProc}

NoBatch == [suspend |-> FALSE, name |-> "", count |-> 0, changed |-> FALSE]

BatchIdle ==
    /\ bpc = "idle" /\ suspend = TRUE /\ exe_name = "worker" /\ pids = <<>> /\ idx = 0
    /\ handled_cgroups = {} /\ success_count = 0 /\ nBatches = 0
    /\ procs0 = procs
    /\ called = <<>>
    /\ hit = {}
    /\ prev = NoBatch

\* The table after the process in slot p is replaced by k.  Linux hands the
\* children of an exiting process to init (pid 1); a Windows entry keeps the
\* creator's pid for ever.
Replaced(p, k) ==
    [q \in AllPids |->
        IF q = p THEN k
        ELSE IF platform = "linux" /\ procs[q].alive /\ procs[q].ppid = p
             THEN [procs[q] EXCEPT !.ppid = 1]
             ELSE procs[q]]

\* A process leaves the table: its pid is free and its stop state is gone.
Exit(p) ==
    /\ envSteps < MaxEnv
    /\ procs[p].alive
    /\ procs' = Replaced(p, NoProc)
    /\ stopCount' = [stopCount EXCEPT ![p] = 0]
    /\ envSteps' = envSteps + 1
    /\ changed' = TRUE
    /\ born' = born \ {p}
    /\ UNCHANGED <<osVars, frozen, nt, fx>>

\* A process is created in a free pid slot (a pid an exited process had is reused).
Spawn(p, k) ==
    /\ envSteps < MaxEnv
    /\ p > 0
    /\ ~procs[p].alive
    /\ procs' = [procs EXCEPT ![p] = k]
    /\ envSteps' = envSteps + 1
    /\ changed' = TRUE
    /\ born' = born \cup {p}
    /\ UNCHANGED <<osVars, stopCount, frozen, nt, fx>>

\* A process exits and the OS gives its pid to a newly created process.
Reuse(p, k) ==
    /\ envSteps < MaxEnv
    /\ p > 0
    /\ procs[p].alive
    /\ procs' = Replaced(p, k)
    /\ stopCount' = [stopCount EXCEPT ![p] = 0]
    /\ envSteps' = envSteps + 1
    /\ changed' = TRUE
    /\ born' = born \cup {p}
    /\ UNCHANGED <<osVars, frozen, nt, fx>>

\* ------------------------------------------- suspend/resume_processes_by_name

\* A loop that lost its handled_cgroups test.
dedup_skip_never(cgroup_path, handled) == FALSE

\* `continue` when the pid's cgroup was handled already in this batch.
dedup_skip(cgroup_path, handled) == cgroup_path # <<>> /\ cgroup_path \in handled

count_after(ok, count) == IF ok THEN count + 1 ELSE count

AfterPid == IF idx < Len(pids) THEN "loop" ELSE "done"

\* Entry: the one find_all_processes_by_name call and the locals.
BatchStart(name, susp) ==
    /\ bpc \in {"idle", "done"}
    /\ nBatches < MaxBatches
    /\ nBatches' = nBatches + 1
    /\ suspend' = susp
    /\ exe_name' = name
    /\ pids' = find_all_processes_by_name(name)
    /\ idx' = 1
    /\ handled_cgroups' = {}
    /\ success_count' = 0
    /\ procs0' = procs
    /\ called' = <<>>
    /\ hit' = {}
    /\ prev' = IF bpc = "done"
               THEN [suspend |-> suspend, name |-> exe_name, count |-> success_count,
                     changed |-> changed]
               ELSE NoBatch
    /\ fx' = <<>>
    /\ changed' = FALSE
    /\ born' = {}
    /\ UNCHANGED envSteps
    /\ bpc' = IF pids' = <<>> THEN "done" ELSE "loop"
    /\ UNCHANGED <<osVars, tableVars, nt, lastCall, treeVars, th>>

\* Loop head for pids[idx]: the cgroup lookup and the handled_cgroups test
\* (the _WIN32 loop has neither and goes straight to the call).
BatchNext ==
    /\ bpc = "loop"
    /\ LET pid == pids[idx]
           cgroup_path == get_cgroup_v2_path(pid) IN
       IF platform = "win"
       THEN /\ bpc' = "act"
            /\ UNCHANGED <<idx, handled_cgroups>>
       ELSE IF dedup_skip(cgroup_path, handled_cgroups)
       THEN /\ bpc' = AfterPid
            /\ idx' = idx + 1
            /\ UNCHANGED handled_cgroups
       ELSE /\ bpc' = "act"
            /\ handled_cgroups' = IF cgroup_path # <<>>
                                  THEN handled_cgroups \cup {cgroup_path}
                                  ELSE handled_cgroups
            /\ UNCHANGED idx
    /\ UNCHANGED <<osVars, tableVars, nt, fx, envVars, lastCall, treeVars, th,
                   suspend, exe_name, pids, success_count, nBatches, procs0, called, hit,
                   prev>>

\* if (set_process_suspended(pid, suspend)) success_count++;
BatchAct ==
    /\ bpc = "act"
    /\ LET o == set_process_suspended(pids[idx], suspend) IN
       /\ stopCount' = o.stopCount
       /\ frozen' = o.frozen
       /\ nt' = o.nt
       /\ fx' = o.fx
       /\ success_count' = count_after(o.ret, success_count)
       /\ hit' = IF pids[idx] \in born /\ o.fx # fx /\ o.fx[Len(o.fx)].ok
                 THEN hit \cup {pids[idx]} ELSE hit
    /\ called' = Append(called, pids[idx])
    /\ idx' = idx + 1
    /\ bpc' = AfterPid
    /\ UNCHANGED <<osVars, procs, envVars, lastCall, treeVars, th,
                   suspend, exe_name, pids, handled_cgroups, nBatches, procs0, prev>>

BatchEnv ==
    /\ bpc \in {"loop", "act"}
    /\ \/ \E p \in Pids : Exit(p)
       \/ \E p \in Pids, k \in SpawnKinds(platform) : Spawn(p, k)
       \/ \E p \in Pids, k \in SpawnKinds(platform) : Reuse(p, k)
    /\ UNCHANGED <<batchVars, lastCall, treeVars, th>>

NoCall == [pid |-> -1, suspend |-> FALSE, ret |-> FALSE,
           pre |-> "none", post |-> "none", allowed |-> FALSE, quiet |-> TRUE,
           domain |-> None]

\* What a table and stop state hold for pid.
StateIn(table, sc, fr, pid) ==
    IF ~table[pid].alive THEN "absent"
    ELSE IF sc[pid] > 0 \/ CgroupPathIn(table, pid) \in fr THEN "suspended" ELSE "running"

StateOf(pid) == StateIn(procs, stopCount, frozen, pid)

InitBatch ==
    /\ \E pf \in {"win", "linux"} : EnvInit(pf) /\ TableInit(pf)
    /\ BatchIdle
    /\ lastCall = NoCall
    /\ TreeIdle
    /\ ThreadsIdle
    /\ LagIdle

NextBatch ==
    \/ \E name \in Names, susp \in BOOLEAN : BatchStart(name, susp)
    \/ BatchNext
    \/ BatchAct
    \/ BatchEnv

SpecBatch == InitBatch /\ [][NextBatch]_vars

\* ------------------------------------------------- batch: what is observed

Range(s) == {s[i] : i \in 1..Len(s)}
Matched == Range(pids)
MatchedDomains == {ResolveDomain(procs0, p) : p \in Matched} \ {None}

FreezeCalls(d) == Cardinality({i \in 1..Len(fx) : fx[i].kind = "node" /\ fx[i].path = d})
SignalCalls(p) == Cardinality({i \in 1..Len(fx) : fx[i].kind = "kill" /\ fx[i].pid = p})
Succeeded == Cardinality({i \in 1..Len(fx) : fx[i].ok})

\* A unit the caller is able to control: a domain whose freeze node takes the
\* write, a pid that accepts the signal / the suspend-resume handle.
Controllable(p) ==
    /\ procs0[p].alive
    /\ IF ResolveDomain(procs0, p) # None
       THEN nodeMode[ResolveDomain(procs0, p)] = "ok"
       ELSE /\ procs0[p].perm = "full"
            /\ platform = "win" => ntExports = {"NtSuspendProcess", "NtResumeProcess"}

Units == MatchedDomains \cup {<<p>> : p \in {q \in Matched : ResolveDomain(procs0, q) = None}}
FailedUnits ==
    {d \in MatchedDomains : nodeMode[d] # "ok"}
    \cup {<<p>> : p \in {q \in Matched : ResolveDomain(procs0, q) = None /\ ~Controllable(q)}}

\* The domains that held a matched pid at enumeration and still hold it.
LiveMatchedDomains ==
    {d \in MatchedDomains :
        \E p \in Matched : ResolveDomain(procs0, p) = d /\ ResolveDomain(procs, p) = d}

\* C1: in one batch every isolation domain that holds matched pids gets
\* exactly one freeze/thaw call, and none of its matched pids gets a signal.
C1_OneFreezePerDomain ==
    bpc = "done" =>
        \A d \in LiveMatchedDomains :
            /\ FreezeCalls(d) = 1
            /\ \A p \in Matched : ResolveDomain(procs0, p) = d => SignalCalls(p) = 0

TwoInOneDomain ==
    /\ bpc = "done" /\ suspend /\ ~changed
    /\ Len(pids) = 2
    /\ ResolveDomain(procs0, pids[1]) # None
    /\ ResolveDomain(procs0, pids[1]) = ResolveDomain(procs0, pids[2])
    /\ \E i \in 1..Len(fx) :
          fx[i].kind = "node" /\ fx[i].path = ResolveDomain(procs0, pids[1]) /\ fx[i].ok

\* C2 (as stated): two matched pids in one domain and a successful freeze
\* make suspend_by_name return 2.
C2_CountTwo == TwoInOneDomain => success_count = 2

\* C2 (amended): two matched pids in one domain and a successful freeze, on a
\* process table that does not change during the batch, make suspend_by_name
\* return 1: the domain is one unit.
C2_CountOne == TwoInOneDomain => success_count = 1

C2_Witness == TwoInOneDomain /\ success_count = 1 /\ FreezeCalls(PathApp) = 1

\* C3: the value returned is the number of unit operations (domain freezes
\* and per-pid calls) that succeeded, between 0 and the number of matched pids.
C3_CountIsSuccesses ==
    bpc = "done" =>
        /\ success_count = Succeeded
        /\ success_count >= 0
        /\ success_count <= Len(pids)

\* C4: in a suspend batch every matched pid without a resolvable isolation
\* domain is itself passed to the per-pid suspend; a lone such pid gives 1.
C4_UngroupedEachSuspended ==
    (bpc = "done" /\ suspend /\ ~changed) =>
        /\ \A p \in Matched : ResolveDomain(procs0, p) = None => p \in Range(called)
        /\ (Len(pids) = 1 /\ ResolveDomain(procs0, pids[1]) = None /\ Controllable(pids[1]))
              => success_count = 1

\* C5: a unit that cannot be controlled does not stop the batch: every other
\* controllable matched unit ends suspended, and the count leaves out exactly
\* the failed units.
C5_ContinueOnError ==
    (bpc = "done" /\ suspend /\ ~changed /\ FailedUnits # {}) =>
        /\ \A p \in Matched : Controllable(p) => IsSuspended(p)
        /\ success_count = Cardinality(Units) - Cardinality(FailedUnits)

\* C20: the batch passes to set_process_suspended only pids of the one
\* enumeration made at its start, and no process created while the batch runs
\* is acted on by it.
C20_OneEnumeration ==
    /\ Range(called) \subseteq Range(pids)
    /\ hit = {}

\* C24: the batch treats two matched pids as one unit only when both resolve
\* to the same recognized isolation domain, the notion of domain that
\* set_process_suspended uses: a control node is written only for a path that
\* is sandboxed on a host with group freeze control, and a matched pid the
\* batch does not pass on shares such a domain with one it did pass on.
C24_DedupByDomain ==
    (bpc = "done" /\ ~changed) =>
        /\ \A i \in 1..Len(fx) :
              fx[i].kind = "node" => is_sandboxed_app(fx[i].path) /\ is_cgroup_v2_available
        /\ \A p \in Matched \ Range(called) :
              /\ ResolveDomain(procs0, p) # None
              /\ \E q \in Range(called) : ResolveDomain(procs0, q) = ResolveDomain(procs0, p)

\* C27: a domain with a writable control node that still holds a matched pid
\* which lived through the whole suspend batch is frozen when the batch ends,
\* whichever of its matched pids exited in between.
C27_DomainStillFrozen ==
    (bpc = "done" /\ suspend) =>
        \A d \in MatchedDomains :
            (/\ nodeMode[d] = "ok"
             /\ \E p \in Matched \ born :
                   ResolveDomain(procs0, p) = d /\ ResolveDomain(procs, p) = d)
            => d \in frozen

\* C28: a batch touches nothing outside itself: a signal or an NT call goes
\* only to a pid of the enumeration, a control node is written only for a
\* domain that held a matched pid, and a process whose name is not the one
\* asked for stays Running (as every process is before the first batch).
C28_OutsideUntouched ==
    nBatches = 1 =>
        /\ \A i \in 1..Len(fx) :
              IF fx[i].kind = "node" THEN fx[i].path \in MatchedDomains
              ELSE fx[i].pid \in Matched
        /\ \A p \in Pids : (procs[p].alive /\ procs[p].name # exe_name) => IsRunning(p)

\* Both batches ran to their end over one unchanged table whose matched
\* units the caller controls: a suspend, then a resume of the same name.
SuspendThenResume ==
    /\ bpc = "done" /\ nBatches = 2
    /\ prev.suspend /\ ~suspend /\ prev.name = exe_name
    /\ ~prev.changed /\ ~changed
    /\ \A p \in Matched : CanControl(p)

\* C29: on an unchanging table with every unit controllable, suspend_by_name
\* then resume_by_name return the same count and leave every matched process
\* Running.
C29_SuspendResumeRoundTrip ==
    SuspendThenResume =>
        /\ success_count = prev.count
        /\ \A p \in Matched : IsRunning(p)

\* Two matched pids outside any domain, both signalled, both counted.
C29_Witness ==
    /\ SuspendThenResume
    /\ Len(pids) = 2 /\ success_count = 2 /\ prev.count = 2
    /\ \E i \in 1..Len(fx) : fx[i].kind = "kill" /\ fx[i].val = "SIGCONT" /\ fx[i].ok

\* ------------------------------------------- set_process_suspended, one call

\* The tables single calls are tried on: every control path, one name.
CallKinds(pf) ==
    IF pf = "win"
    THEN {Proc("worker", 0, <<>>, p) : p \in {"full", "query", "none"}}
    ELSE {Proc("worker", 0, l, "full") : l \in {LineV1, LineApp}}
         \cup {Proc("worker", 0, LineUser, "query")}

\* A caller runs set_process_suspended(pid, susp) to its return.  The suspend
\* count NtSuspendProcess keeps is unbounded here; the guard caps it.
Call(pid, susp) ==
    /\ (platform = "win" /\ susp) => stopCount[pid] < MaxSuspendCount
    /\ LET o == set_process_suspended(pid, susp) IN
       /\ stopCount' = o.stopCount
       /\ frozen' = o.frozen
       /\ nt' = o.nt
       /\ fx' = SubSeq(o.fx, Len(fx) + 1, Len(o.fx))
       /\ lastCall' = [pid |-> pid, suspend |-> susp, ret |-> o.ret,
                       pre |-> StateOf(pid),
                       post |-> StateIn(procs, o.stopCount, o.frozen, pid),
                       allowed |-> CanControl(pid),
                       domain |-> ResolveDomain(procs, pid),
                       quiet |-> /\ o.fx = fx /\ o.nt = nt
                                 /\ o.stopCount = stopCount /\ o.frozen = frozen]
    /\ changed' = FALSE
    /\ born' = {}
    /\ UNCHANGED <<osVars, procs, envSteps, batchVars, treeVars, th>>

CallEnv ==
    /\ \/ \E p \in Pids : Exit(p)
       \/ \E p \in Pids, k \in SpawnKinds(platform) : Spawn(p, k)
       \/ \E p \in Pids, k \in SpawnKinds(platform) : Reuse(p, k)
    /\ UNCHANGED <<batchVars, lastCall, treeVars, th>>

InitCall ==
    /\ \E pf \in {"win", "linux"} :
          /\ EnvInit(pf)
          /\ procs \in {f \in [AllPids -> CallKinds(pf) \cup {NoProc}] : f[0] = NoProc}
    /\ BatchIdle
    /\ lastCall = NoCall
    /\ TreeIdle
    /\ ThreadsIdle
    /\ LagIdle

NextCall ==
    \/ \E pid \in Pids, susp \in BOOLEAN : Call(pid, susp)
    \/ CallEnv

SpecCall == InitCall /\ [][NextCall]_vars

\* ------------------------------------------- single calls: what is observed

C8_ResumeRuns ==
    (~lastCall.suspend /\ lastCall.pre = "suspended" /\ lastCall.ret)
        => lastCall.post = "running"

\* The live pids whose cgroup is the domain d.
Members(d) == {p \in Pids : procs[p].alive /\ get_cgroup_v2_path(p) = d}

\* C11: a call on a pid that resolves to an isolation domain touches nothing
\* but that domain's freeze node, whether the node takes the write or not, and
\* sends no signal; after a successful suspend the domain never holds a
\* running process next to a paused one.
C11_DomainOnlyThroughNode ==
    lastCall.domain # None =>
        /\ Len(fx) = 1
        /\ fx[1].kind = "node" /\ fx[1].path = lastCall.domain
        /\ (lastCall.suspend /\ lastCall.ret) =>
               ~\E p, q \in Members(lastCall.domain) : IsRunning(p) /\ IsSuspended(q)

C11_Witness ==
    /\ lastCall.domain = PathApp /\ lastCall.suspend /\ lastCall.ret
    /\ Cardinality(Members(PathApp)) >= 2
    /\ \A p \in Members(PathApp) : IsSuspended(p)
    /\ fx = <<Effect("node", lastCall.pid, PathApp, "1", TRUE)>>

\* The ways a freeze/thaw fails that the code itself detects: the node cannot
\* be opened (the domain is gone, or the caller lacks the rights), the write
\* is rejected.
DetectedFailures == {"noopen", "failnow"}

\* C23: a failed domain freeze/thaw tells the caller which kind of failure it
\* was: what the call returns when the node cannot be opened differs from
\* what it returns when the write to the node fails.
C23_FailureKindsDistinct ==
    (lastCall.domain # None /\ nodeMode[lastCall.domain] \in DetectedFailures) =>
        \A m \in DetectedFailures \ {nodeMode[lastCall.domain]} :
            FreezeNodeIn(m, lastCall.pid, lastCall.suspend, lastCall.domain).ret
                # lastCall.ret

\* The effects of the last call that put bytes into a file: a freeze node that
\* was opened (a node effect other than the failed open).  Signals, process
\* handles and NT calls write no file.
FileWrites == {i \in 1..Len(fx) : fx[i].kind = "node" /\ fx[i].val # "open"}

\* C12: whatever a call writes goes to the freeze node of the pid's domain,
\* and it is "1" for a suspend request and "0" for a resume request.
C12_NodeValues ==
    \A i \in FileWrites :
        /\ fx[i].path = lastCall.domain /\ lastCall.domain # None
        /\ fx[i].val = (IF lastCall.suspend THEN "1" ELSE "0")

C12_Witness ==
    /\ ~lastCall.suspend /\ lastCall.ret /\ lastCall.pre = "suspended"
    /\ FileWrites = {1} /\ fx[1].val = "0" /\ fx[1].path = PathApp

\* ------------------------------ the query and control calls, one at a time

\* Tables for the probes: a pid the caller may control, one it may only see,
\* one it may not even query (_WIN32), one inside a sandboxed cgroup (Linux).
ProbeKinds(pf) ==
    IF pf = "win"
    THEN {Proc("worker", 0, <<>>, p) : p \in {"full", "query", "none"}}
    ELSE {Proc("worker", 0, LineUser, "full"), Proc("worker", 0, LineUser, "query"),
          Proc("worker", 0, LineApp, "full")}

\* What the last call was, what it returned and what it met.  `passed` is the
\* answer can_control_process gives for the pid on the table the call runs on.
NoProbe == [op |-> "none", pid |-> -1, ret |-> FALSE, alive |-> FALSE, perm |-> "none",
            domain |-> None, passed |-> FALSE]

Probed(op, pid, ret) ==
    [op |-> op, pid |-> pid, ret |-> ret,
     alive |-> IF pid \in AllPids THEN procs[pid].alive ELSE FALSE,
     perm |-> IF pid \in AllPids THEN procs[pid].perm ELSE "none",
     domain |-> IF pid \in AllPids THEN ResolveDomain(procs, pid) ELSE None,
     passed |-> IF pid \in AllPids THEN can_control_process(pid) ELSE FALSE]

ProbeExists(pid) ==
    /\ lastCall' = Probed("exists", pid, process_exists(pid))
    /\ handles' = Handles_process_exists(handles, pid)
    /\ fx' = <<>>
    /\ UNCHANGED <<hostVars, tableVars, nt, envVars, batchVars, treeVars, th>>

ProbeCanControl(pid) ==
    /\ lastCall' = Probed("can_control", pid, can_control_process(pid))
    /\ handles' = Handles_can_control_process(handles, pid)
    /\ fx' = <<>>
    /\ UNCHANGED <<hostVars, tableVars, nt, envVars, batchVars, treeVars, th>>

\* find_all_processes_by_name(name) and find_process_by_name(name) on the
\* table as it is; `matching` is the set of table entries carrying the name.
ProbeFind(name) ==
    /\ lastCall' = [op |-> "find", pid |-> -1, ret |-> TRUE, alive |-> FALSE,
                    perm |-> "none", domain |-> None, passed |-> FALSE,
                    name |-> name,
                    all |-> find_all_processes_by_name(name),
                    first |-> find_process_by_name(name),
                    matching |-> {p \in AllPids : procs[p].alive /\ procs[p].name = name}]
    /\ fx' = <<>>
    /\ UNCHANGED <<osVars, tableVars, nt, envVars, batchVars, treeVars, th>>

ProbeElevate(priv) ==
    /\ platform = "win"
    /\ lastCall' = Probed("elevate", -1, enable_debug_privilege(priv))
    /\ handles' = Handles_enable_debug_privilege(handles, priv)
    /\ fx' = <<>>
    /\ UNCHANGED <<hostVars, tableVars, nt, envVars, batchVars, treeVars, th>>

ProbeSetSuspended(pid, susp, priv) ==
    /\ (platform = "win" /\ susp) => stopCount[pid] < MaxSuspendCount
    /\ (platform = "win" /\ ~nt.initialized /\ process_exists(pid)) \/ priv = "ok"
    /\ LET o == set_process_suspended(pid, susp) IN
       /\ stopCount' = o.stopCount
       /\ frozen' = o.frozen
       /\ nt' = o.nt
       /\ fx' = SubSeq(o.fx, Len(fx) + 1, Len(o.fx))
       /\ lastCall' = Probed(IF susp THEN "suspend" ELSE "resume", pid, o.ret)
    /\ handles' = Handles_set_process_suspended(handles, pid, susp, priv)
    /\ UNCHANGED <<hostVars, procs, envVars, batchVars, treeVars, th>>

\* The table changes between two calls.
ProbeEnv ==
    /\ \/ \E p \in Pids : Exit(p)
       \/ \E p \in Pids, k \in ProbeKinds(platform) : Spawn(p, k)
       \/ \E p \in Pids, k \in ProbeKinds(platform) : Reuse(p, k)
    /\ UNCHANGED <<batchVars, lastCall, treeVars, th>>

InitProbe ==
    /\ \E pf \in {"win", "linux"} :
          /\ EnvInit(pf)
          /\ nodeMode = [p \in Paths |-> "ok"]
          /\ procs \in {f \in [AllPids -> ProbeKinds(pf) \cup {NoProc}] : f[0] = NoProc}
    /\ BatchIdle
    /\ lastCall = NoProbe
    /\ TreeIdle
    /\ ThreadsIdle
    /\ LagIdle

NextProbe ==
    \/ \E pid \in Pids : ProbeExists(pid)
    \/ \E pid \in Pids : ProbeCanControl(pid)
    \/ \E priv \in PrivModes : ProbeElevate(priv)
    \/ \E pid \in Pids, susp \in BOOLEAN, priv \in PrivModes : ProbeSetSuspended(pid, susp, priv)
    \/ ProbeEnv

SpecProbe == InitProbe /\ [][NextProbe]_vars

\* C13: exists(pid) is true for every pid in the process table, whatever the
\* caller's rights on it, and false for every pid that is not in the table.
C13_ExistsIsInTable ==
    lastCall.op = "exists" => (lastCall.ret <=> lastCall.alive)

\* C14: can_control(pid) is true exactly when the control-capable probe of
\* pid succeeds; for a process that exists but rejects the probe for lack of
\* rights it is false.
C14_CanControlIsProbe ==
    lastCall.op = "can_control" =>
        (lastCall.ret <=> (lastCall.alive /\ lastCall.perm = "full"))

\* C15: when can_control(pid) answers true on the table suspend(pid) runs on,
\* suspend(pid) of a pid without an isolation domain succeeds.
C15_PreFilterSound ==
    (lastCall.op = "suspend" /\ lastCall.passed /\ lastCall.domain = None)
        => lastCall.ret

\* C19: every call returns with the handles it opened released: the count of
\* open handles after exists, can_control, the elevation step, suspend and
\* resume, on their success and failure paths, is what it was before (none).
C19_HandlesReleased == handles = 0

\* A suspend that went through OpenProcess, NtSuspendProcess and CloseHandle,
\* its first-use initialisation included.
C19_Witness ==
    /\ platform = "win" /\ lastCall.op = "suspend" /\ lastCall.ret
    /\ nt.elevations = 1 /\ fx # <<>> /\ handles = 0

\* The name lookups, on tables that hold both names.
FindKinds(pf) == {Proc(n, 0, IF pf = "win" THEN <<>> ELSE LineUser, "full") : n \in Names}

FindEnv ==
    /\ \/ \E p \in Pids : Exit(p)
       \/ \E p \in Pids, k \in FindKinds(platform) : Spawn(p, k)
       \/ \E p \in Pids, k \in FindKinds(platform) : Reuse(p, k)
    /\ UNCHANGED <<batchVars, lastCall, treeVars, th>>

InitFind ==
    /\ \E pf \in {"win", "linux"} :
          /\ EnvInit(pf)
          /\ cgv2 = FALSE
          /\ ntExports = {}
          /\ procs \in {f \in [AllPids -> FindKinds(pf) \cup {NoProc}] : f[0] = NoProc}
    /\ BatchIdle
    /\ lastCall = NoProbe
    /\ TreeIdle
    /\ ThreadsIdle
    /\ LagIdle

NextFind ==
    \/ \E name \in Names : ProbeFind(name)
    \/ FindEnv

SpecFind == InitFind /\ [][NextFind]_vars

\* C16: on one table, find_all_by_name(name) lists exactly the pids carrying
\* the name, each once, in enumeration order, and find_by_name(name) is its
\* first element, or -1 exactly when it is empty.
C16_FindFirstOfAll ==
    lastCall.op = "find" =>
        /\ Range(lastCall.all) = lastCall.matching
        /\ \A i, j \in 1..Len(lastCall.all) : i < j => lastCall.all[i] < lastCall.all[j]
        /\ lastCall.first = (IF lastCall.all = <<>> THEN -1 ELSE lastCall.all[1])
        /\ (lastCall.first = -1) <=> (lastCall.all = <<>>)

C16_Witness ==
    /\ lastCall.op = "find" /\ Len(lastCall.all) = 2 /\ lastCall.first = lastCall.all[1]
    /\ lastCall.name = "worker" /\ \E p \in Pids : procs[p].name = "other"

\* --------------------------------------------------------- get_process_tree

\* Parent links of a Linux table end at the kernel (0) or at an unreadable
\* record (-1) and name live processes: a process outlives its children's
\* need for it, or they are handed to init.
RECURSIVE Rooted(_, _, _)
Rooted(f, p, n) ==
    \/ f[p].ppid \in {0, -1}
    \/ /\ n > 0
       /\ f[p].ppid \in DOMAIN f /\ f[p].ppid > 0
       /\ f[f[p].ppid].alive
       /\ Rooted(f, f[p].ppid, n - 1)

TreeProc(pp, line) == Proc("worker", pp, line, "full")

\* Linux: pid 1 is init, pid 0 has no entry.  Windows: pid 0 is the idle
\* process, its own parent; an entry may name a creator that is gone.
TreeTables(pf) ==
    IF pf = "win"
    THEN {f \in [AllPids -> {NoProc} \cup {TreeProc(pp, <<>>) : pp \in AllPids}] :
             /\ f[0] = TreeProc(0, <<>>)
             /\ \A p \in Pids : f[p].alive => f[p].ppid # p}
    ELSE {f \in [AllPids -> {NoProc} \cup {TreeProc(pp, LineV1) : pp \in -1..MaxPid}] :
             /\ f[0] = NoProc
             /\ f[1] = TreeProc(0, LineV1)
             /\ \A p \in Pids : f[p].alive => Rooted(f, p, MaxPid)}

\* The highest pid the table has a slot for.
LastPid == CHOOSE p \in DOMAIN procs : \A q \in DOMAIN procs : q <= p

\* One pass over the snapshot / over /proc: the entries whose parent is current.
TreeScan(current) ==
    SelectSeq(Enumerate(LastPid), LAMBDA p : get_parent_pid(p) = current)

\* A walk that lists the children but never visits them.
PushChildren_none(rest, children) == rest

\* to_check.push_back(pid) for every child found.
PushChildren(rest, children) == rest \o children

TreeStart(root) ==
    /\ tpc \in {"idle", "done"}
    /\ root_pid' = root
    /\ tree' = <<root>>
    /\ to_check' = <<root>>
    /\ tpc' = "walk"
    /\ changed' = FALSE
    /\ born' = {}
    /\ procs0' = procs
    /\ UNCHANGED <<bpc, suspend, exe_name, pids, idx, handled_cgroups, success_count,
                   nBatches, called, hit, prev>>
    /\ UNCHANGED <<osVars, tableVars, nt, fx, envSteps, lastCall, th>>

\* One iteration of while (!to_check.empty()): pop the back, scan, push.
TreeStep ==
    /\ tpc = "walk"
    /\ Len(tree) < MaxTreeLen
    /\ LET current == to_check[Len(to_check)]
           rest == SubSeq(to_check, 1, Len(to_check) - 1)
           children == TreeScan(current) IN
       /\ tree' = tree \o children
       /\ to_check' = PushChildren(rest, children)
       /\ tpc' = IF to_check' = <<>> THEN "done" ELSE "walk"
    /\ UNCHANGED <<osVars, tableVars, nt, fx, envVars, batchVars, lastCall, root_pid, th>>

TreeSpawnKinds(p) ==
    {TreeProc(pp, IF platform = "win" THEN <<>> ELSE LineV1) :
        pp \in {q \in AllPids : procs[q].alive /\ q # p}}

TreeEnv ==
    /\ tpc = "walk"
    /\ \/ \E p \in Pids : (platform = "linux" => p # 1) /\ Exit(p)
       \/ \E p \in Pids : \E k \in TreeSpawnKinds(p) : Spawn(p, k)
       \/ \E p \in Pids : \E k \in TreeSpawnKinds(p) :
             (platform = "linux" => p # 1) /\ Reuse(p, k)
    /\ UNCHANGED <<batchVars, lastCall, treeVars, th>>

InitTree ==
    /\ \E pf \in {"win", "linux"} :
          /\ EnvInit(pf)
          /\ cgv2 = FALSE
          /\ ntExports = {}
          /\ procs \in TreeTables(pf)
    /\ BatchIdle
    /\ lastCall = NoCall
    /\ TreeIdle
    /\ ThreadsIdle
    /\ LagIdle

NextTree ==
    \/ \E root \in -1..MaxPid : TreeStart(root)
    \/ TreeStep
    \/ TreeEnv

SpecTree == InitTree /\ [][NextTree]_vars

\* The processes descended from root through parent links, root included.
RECURSIVE DescendIn(_, _)
DescendIn(table, S) ==
    LET N == S \cup {p \in DOMAIN table : table[p].alive /\ table[p].ppid \in S} IN
    IF N = S THEN S ELSE DescendIn(table, N)

Descend(S) == DescendIn(procs, S)

\* C9: on an unchanging table the walk returns root and its transitive
\* descendants and nothing else.
C9_TreeIsClosure ==
    (tpc = "done" /\ ~changed) => Range(tree) = Descend({root_pid})

\* A chain 1 -> 2 -> 3 walked from 1.
C9_Witness ==
    /\ tpc = "done" /\ ~changed /\ root_pid = 1
    /\ procs[2].alive /\ procs[2].ppid = 1
    /\ procs[3].alive /\ procs[3].ppid = 2
    /\ Range(tree) = {1, 2, 3}

\* C21: the result of a walk is the descendant closure of root in one single
\* state of the process table, that of the walk's start or a later one,
\* whatever is created or exits while the walk runs.
C21_OneSnapshot ==
    tpc = "done" =>
        \/ Range(tree) = DescendIn(procs0, {root_pid})
        \/ Range(tree) = DescendIn(procs, {root_pid})

\* C25: the walk ends for every root and every table.  On a table that does
\* not change a walk that ends visits each entry at most once, so its result
\* never holds more than root and one element per slot of the table.
C25_WalkIsBounded ==
    ~changed => Len(tree) <= Cardinality(AllPids) + 1

\* C26: the returned sequence holds no pid twice, whatever exits or is
\* created during the walk.
C26_NoDuplicates ==
    tpc = "done" => \A i, j \in 1..Len(tree) : i # j => tree[i] # tree[j]

\* ---- the order of the result, on tables deep and wide enough to show it

\* Linux tables over pids 1..MaxOrderPid: init is pid 1, a process of the
\* kernel (ppid 0) or of a live process.
OrderTables ==
    {f \in [0..MaxOrderPid -> {NoProc} \cup {TreeProc(pp, LineV1) : pp \in 0..MaxOrderPid}] :
        /\ f[0] = NoProc
        /\ f[1] = TreeProc(0, LineV1)
        /\ \A p \in 1..MaxOrderPid : f[p].alive => Rooted(f, p, MaxOrderPid)}

InitOrder ==
    /\ EnvInit("linux")
    /\ cgv2 = FALSE
    /\ procs \in OrderTables
    /\ BatchIdle
    /\ lastCall = NoCall
    /\ TreeIdle
    /\ ThreadsIdle
    /\ LagIdle

NextOrder ==
    \/ \E root \in 0..MaxOrderPid : TreeStart(root)
    \/ TreeStep

SpecOrder == InitOrder /\ [][NextOrder]_vars

\* The number of parent links from p up to root_pid (p is root or below it).
RECURSIVE DepthBelowRoot(_)
DepthBelowRoot(p) ==
    IF p = root_pid \/ p \notin DOMAIN procs \/ ~procs[p].alive THEN 0
    ELSE 1 + DepthBelowRoot(procs[p].ppid)

\* C22: the result starts with root, in the table or not, and lists the
\* descendants by depth: a pid at depth d comes before every pid at depth d+1.
C22_BreadthFirstOrder ==
    tpc = "done" =>
        /\ tree[1] = root_pid
        /\ \A i, j \in 1..Len(tree) :
              DepthBelowRoot(tree[i]) < DepthBelowRoot(tree[j]) => i < j

\* ------------------------------- init_nt_functions under concurrent callers

\* `initialized`, g_pfnNtSuspendProcess and g_pfnNtResumeProcess are plain
\* statics: each read and each write below is a step of its own, and nothing
\* orders the steps of different threads.  The accesses race, so a store is
\* first the writer's own (th[t].buf, a set of <<name, value>>) and reaches the
\* other threads (nt) at some later step, the three stores in no fixed order;
\* a thread reads its own pending store, else what has reached nt.

SetPc(t, pc) == th' = [th EXCEPT ![t].pc = pc]

Pending(t, f) == {w \in th[t].buf : w[1] = f}

ReadStatic(t, f) ==
    IF Pending(t, f) # {} THEN (CHOOSE w \in Pending(t, f) : TRUE)[2] ELSE nt[f]

StoreStatic(t, f, v, pc) ==
    /\ th' = [th EXCEPT ![t].pc = pc,
                        ![t].buf = (th[t].buf \ Pending(t, f)) \cup {<<f, v>>}]
    /\ UNCHANGED nt

\* Some thread has run init_nt_functions to its end.
InitFinished == \E u \in Threads : th[u].did

\* A thread enters set_process_suspended for a live pid it may control and
\* reaches init_nt_functions().
ThreadCall(t) ==
    /\ th[t].pc = "idle"
    /\ th' = [th EXCEPT ![t].pc = "test", ![t].after = InitFinished]
    /\ UNCHANGED nt

\* line 119: if (!initialized), a plain read
ThreadTest(t) ==
    /\ th[t].pc = "test"
    /\ SetPc(t, IF ReadStatic(t, "initialized") THEN "use" ELSE "resolveS")
    /\ UNCHANGED nt

\* lines 120-123: GetModuleHandleA, GetProcAddress("NtSuspendProcess")
ThreadResolveSuspend(t) ==
    /\ th[t].pc = "resolveS"
    /\ th' = [th EXCEPT ![t].pc = "resolveR",
                        ![t].buf = (th[t].buf \ Pending(t, "pSuspend"))
                                   \cup {<<"pSuspend", "NtSuspendProcess" \in ntExports>>}]
    /\ nt' = [nt EXCEPT !.resolutions = @ + 1]

\* lines 124-125: GetProcAddress("NtResumeProcess")
ThreadResolveResume(t) ==
    /\ th[t].pc = "resolveR"
    /\ StoreStatic(t, "pResume", "NtResumeProcess" \in ntExports, "elevate")

\* line 128: enable_debug_privilege(), its result ignored
ThreadElevate(t) ==
    /\ th[t].pc = "elevate"
    /\ nt' = [nt EXCEPT !.elevations = @ + 1]
    /\ SetPc(t, "publish")

\* line 129: initialized = true; the function returns
ThreadPublish(t) ==
    /\ th[t].pc = "publish"
    /\ th' = [th EXCEPT ![t].pc = "use", ![t].did = TRUE,
                        ![t].buf = (th[t].buf \ Pending(t, "initialized"))
                                   \cup {<<"initialized", TRUE>>}]
    /\ UNCHANGED nt

\* One pending store of thread t reaches the other threads.
ThreadFlush(t) ==
    \E w \in th[t].buf :
        /\ nt' = [nt EXCEPT ![w[1]] = w[2]]
        /\ th' = [th EXCEPT ![t].buf = th[t].buf \ {w}]

Capability(n) ==
    IF n.pSuspend /\ n.pResume THEN "both"
    ELSE IF n.pSuspend \/ n.pResume THEN "partial" ELSE "null"

\* What thread t reads from the two globals at line 389.
Observed(t) ==
    Capability([pSuspend |-> ReadStatic(t, "pSuspend"), pResume |-> ReadStatic(t, "pResume")])

\* line 389 onwards: the two pointers are read and the call completes.
ThreadUse(t) ==
    /\ th[t].pc = "use"
    /\ th' = [th EXCEPT ![t].pc = "done", ![t].seen = Observed(t),
                        ![t].ret = IF Observed(t) = "both" THEN "ok" ELSE "fail"]
    /\ UNCHANGED nt

\* The thread makes its next call.
ThreadReturn(t) ==
    /\ th[t].pc = "done"
    /\ SetPc(t, "idle")
    /\ UNCHANGED nt

ThreadStep(t) ==
    /\ \/ ThreadCall(t)
       \/ ThreadTest(t)
       \/ ThreadResolveSuspend(t)
       \/ ThreadResolveResume(t)
       \/ ThreadElevate(t)
       \/ ThreadPublish(t)
       \/ ThreadFlush(t)
       \/ ThreadUse(t)
       \/ ThreadReturn(t)
    /\ UNCHANGED <<osVars, tableVars, fx, envVars, batchVars, lastCall, treeVars>>

InitThreads ==
    /\ EnvInit("win")
    /\ procs \in {f \in [AllPids -> {NoProc, Proc("worker", 0, <<>>, "full")}] :
                     f[0] = NoProc /\ f[1].alive}
    /\ BatchIdle
    /\ lastCall = NoCall
    /\ TreeIdle
    /\ ThreadsIdle
    /\ LagIdle

NextThreads == \E t \in Threads : ThreadStep(t)

SpecThreads == InitThreads /\ [][NextThreads]_vars

\* C10: whatever the interleaving of concurrent first callers, the entry
\* points are resolved once and the privilege elevation is attempted once.
C10_ResolvedOnce == nt.resolutions <= 1 /\ nt.elevations <= 1

\* The capability ntdll gives: what a completed resolution stores.
Resolved ==
    Capability([pSuspend |-> "NtSuspendProcess" \in ntExports,
                pResume |-> "NtResumeProcess" \in ntExports])

\* C17: a call that starts after some initialisation has finished observes the
\* resolved capability (both entry points, or the permanent failure), never an
\* unresolved or partly resolved one that a later call sees differently.
C17_SameCapability ==
    \A t \in Threads : (th[t].pc = "done" /\ th[t].after) => th[t].seen = Resolved

\* C18: when the entry points cannot be resolved, the resolution is attempted
\* once and never again, and every call on an existing pid fails.
C18_FailurePermanent ==
    Resolved # "both" =>
        /\ nt.resolutions <= 1
        /\ \A t \in Threads : th[t].pc = "done" => th[t].ret = "fail"


\* ------------------------------------------- BlockTraffic / UnblockTraffic

Interfaces == {"", "eth0"}

\* The option values the settings window can leave in the globals.
AmountChoices == {0, 100}
LagChoices == {-1, 1, 50}
LossChoices == {Tenths(50, 0), Tenths(99, 5), Tenths(120, 0)}

SetCtrl(c) ==
    /\ is_active_' = c.is_active_
    /\ current_lag_ms_' = c.current_lag_ms_
    /\ current_drop_percent_' = c.current_drop_percent_
    /\ UNCHANGED default_iface_

LagFrame ==
    UNCHANGED <<platform, cgv2, nodeMode, ntExports, handles, tableVars, nt, fx,
                envVars, batchVars, lastCall, treeVars, th>>

\* A flag that follows the request, not the controller's answer.
flag_after_any(success, value) == value

\* TrafficBlocked after a controller call that asked for `value`.
flag_after(success, value) == IF success THEN value ELSE TrafficBlocked

\* BlockTraffic(), to its return.
BlockTraffic(launch) ==
    /\ IF TrafficBlocked
       THEN /\ lagCall' = [op |-> "block", ret |-> TRUE, before |-> TRUE,
                           invoked |-> "none", success |-> FALSE]
            /\ UNCHANGED <<TrafficBlocked, ctrlVars>>
       ELSE LET lag_ms == IF customValuesAllowed THEN LagTimeMilliseconds ELSE 1
                drop_pct == IF customValuesAllowed THEN PacketLossPercentage
                            ELSE Tenths(99, 5)
                method == IF PingIncreaseMode THEN "increasePing"
                          ELSE IF PreventDisconnection THEN "lag" ELSE "block"
                r == IF PingIncreaseMode THEN increasePing(PingIncreaseAmount, launch)
                     ELSE IF PreventDisconnection THEN lag(lag_ms, drop_pct, launch)
                     ELSE block(launch) IN
            /\ SetCtrl(r.ctrl)
            /\ TrafficBlocked' = flag_after(r.ret, TRUE)
            /\ lagCall' = [op |-> "block", ret |-> r.ret, before |-> FALSE,
                           invoked |-> method, success |-> r.ret]
    /\ UNCHANGED optVars
    /\ LagFrame

\* UnblockTraffic(), to its return.
UnblockTraffic ==
    /\ IF ~TrafficBlocked
       THEN /\ lagCall' = [op |-> "unblock", ret |-> TRUE, before |-> FALSE,
                           invoked |-> "none", success |-> FALSE]
            /\ UNCHANGED <<TrafficBlocked, ctrlVars>>
       ELSE LET r == disable IN
            /\ SetCtrl(r.ctrl)
            /\ TrafficBlocked' = flag_after(r.ret, FALSE)
            /\ lagCall' = [op |-> "unblock", ret |-> r.ret, before |-> TRUE,
                           invoked |-> "disable", success |-> r.ret]
    /\ UNCHANGED optVars
    /\ LagFrame

\* The options are plain globals: the user changes them between two calls.
SetOptions ==
    /\ PreventDisconnection' \in BOOLEAN
    /\ customValuesAllowed' \in BOOLEAN
    /\ PingIncreaseMode' \in BOOLEAN
    /\ PingIncreaseAmount' \in AmountChoices
    /\ LagTimeMilliseconds' \in LagChoices
    /\ PacketLossPercentage' \in LossChoices
    /\ UNCHANGED <<TrafficBlocked, ctrlVars, lagCall>>
    /\ LagFrame

InitLag ==
    /\ \E pf \in {"win", "linux"} :
          /\ EnvInit(pf)
          /\ cgv2 = FALSE
          /\ ntExports = {}
          /\ \E iface \in (IF pf = "win" THEN {""} ELSE Interfaces) :
                LagConstructed(iface)
    /\ procs = [p \in AllPids |-> NoProc]
    /\ BatchIdle
    /\ lastCall = NoCall
    /\ TreeIdle
    /\ ThreadsIdle

NextLag ==
    \/ \E launch \in (IF platform = "win" THEN Launches ELSE {"ok"}) : BlockTraffic(launch)
    \/ UnblockTraffic
    \/ SetOptions

SpecLag == InitLag /\ [][NextLag]_vars

\* C30: TrafficBlocked is true exactly when the controller reports itself
\* active; the flag changes only in a call whose controller call succeeded;
\* a call made in the state it would produce returns true and calls no
\* controller method.
C30_FlagFollowsController ==
    /\ TrafficBlocked = isActive
    /\ TrafficBlocked # lagCall.before => (lagCall.invoked # "none" /\ lagCall.success)
    /\ (lagCall.op = "block" /\ lagCall.before) =>
           (lagCall.ret /\ lagCall.invoked = "none")
    /\ (lagCall.op = "unblock" /\ ~lagCall.before) =>
           (lagCall.ret /\ lagCall.invoked = "none")

\* A block that the controller refused, with the flag left as it was.
C30_Witness ==
    /\ lagCall.op = "block" /\ ~lagCall.before /\ lagCall.invoked = "increasePing"
    /\ ~lagCall.ret /\ ~TrafficBlocked /\ ~isActive

=============================================================================
